---- MODULE Spec2Model ----
(***************************************************************************)
(* The connection-lifecycle state machine of the BLE central               *)
(* (central/macos_ble_central): BleCentral::run sequences                  *)
(* recreate_adapter, scan_and_select, connect_and_discover and run_session *)
(* and restarts after a backoff on any failure; main races run against     *)
(* ctrl_c and calls shutdown.                                              *)
(*                                                                         *)
(* One action per await of the code.  A value of pc names the await the    *)
(* run loop is suspended at; "scan_and_select", "connect_and_discover" and *)
(* "run_session" name the points where run calls a stage (no await there,  *)
(* so ctrl_c cannot win the select at them).  The transport (btleplug) is  *)
(* the environment: every call draws its outcome from a small set.         *)
(***************************************************************************)
EXTENDS Integers, Sequences, FiniteSets, TLC

VARIABLES
    args,           \* BleCentral::new: the service and characteristic texts
    created,        \* the result of BleCentral::new
    mainpc,         \* main: "new" | "aborted" | "select" | "shutdown" | "done"
    pc,             \* run: the await (or stage call) the loop is at
    iter,           \* number of the current pass of run's loop
    manager,        \* self.manager: 0 (None) or the pass that created it
    adapter,        \* self.adapter: None or an adapter
    peripheral,     \* self.peripheral: None or a peripheral
    characteristic, \* self.characteristic: None or a characteristic uuid
    i,              \* scan_and_select: passes of the 'scan loop begun
    list,           \* scan_and_select: the listing of the current poll
    idx,            \* scan_and_select: position of p in list
    props,          \* transport: what properties() answers during this poll
    found,          \* history: adapters enumerated in this pass (-1: none yet)
    res,            \* history: result of each stage in the current pass
    scan,           \* history: this pass's invocation of scan_and_select
    sess,           \* history: this pass's invocation of run_session
    out,            \* the session's log output (info and error entries)
    catalog,        \* transport: characteristics() of the peripheral
    backoffs,       \* history: reconnect_backoff sleeps since the last failure
    linkOpen,       \* history: peripherals connected and not disconnected
    subscribed,     \* history: peripherals subscribed and not unsubscribed
    shutdownCalls,  \* history: transport calls issued by shutdown
    ops,            \* history: the transport requests of the current pass
    shutdowns       \* history: invocations of shutdown

vars == <<args, created, mainpc, pc, iter, manager, adapter, peripheral, characteristic,
          i, list, idx, props, found, res, scan, sess, out, catalog, backoffs,
          linkOpen, subscribed, shutdownCalls, ops, shutdowns>>

(***************************************************************************)
(* Bounds of the model and the identities of the program.                  *)
(***************************************************************************)
MaxIter == 3        \* passes of run's loop explored
ScanRetries == 3    \* config.scan_retries of the explored configuration
MaxPackets == 2     \* notification packets delivered to one session
NotifyTimeout == 2  \* config.notify_timeout, in ticks of the clock

None == "None"
ServiceUuid == "9835D696-923D-44CA-A5EA-D252AE3297B9"
CharUuid == "7AB61943-BBB5-49D6-88C8-96185A98E587"
OtherUuid == "0000FFFF-0000-1000-8000-00805F9B34FB"

Adapters == {"hci0", "hci1"}
Peripherals == {"pA", "pB"}
Stages == {"recreate_adapter", "scan_and_select", "connect_and_discover",
           "run_session"}

\* The awaits of run and of the stages it calls.
SuspensionPoints ==
    {"recreate_adapter", "adapters", "start_scan", "peripherals", "properties",
     "scan_sleep", "stop_scan", "connect", "discover_services",
     "notifications", "subscribe", "next", "backoff"}

(***************************************************************************)
(* The identity texts given to BleCentral::new, as sequences of characters, *)
(* and Uuid::parse_str on the hyphenated form: 8-4-4-4-12 hexadecimal       *)
(* digits.  The parsed values of the two well-formed texts are the          *)
(* identities ServiceUuid and CharUuid above.                               *)
(***************************************************************************)
ServiceText ==
    <<"9", "8", "3", "5", "D", "6", "9", "6", "-", "9", "2", "3",
      "D", "-", "4", "4", "C", "A", "-", "A", "5", "E", "A", "-",
      "D", "2", "5", "2", "A", "E", "3", "2", "9", "7", "B", "9">>
CharText ==
    <<"7", "A", "B", "6", "1", "9", "4", "3", "-", "B", "B", "B",
      "5", "-", "4", "9", "D", "6", "-", "8", "8", "C", "8", "-",
      "9", "6", "1", "8", "5", "A", "9", "8", "E", "5", "8", "7">>

\* Texts that are not hyphenated uuids: a character that is not a hexadecimal digit,
\* one character short, a hyphen out of place, and the empty text.
MalformedTexts ==
    { <<"9", "8", "3", "5", "D", "6", "9", "6", "-", "9", "2", "3",
        "D", "-", "4", "4", "C", "A", "-", "A", "5", "E", "A", "-",
        "D", "2", "5", "2", "A", "E", "3", "2", "9", "7", "B", "G">>,
      <<"7", "A", "B", "6", "1", "9", "4", "3", "-", "B", "B", "B",
        "5", "-", "4", "9", "D", "6", "-", "8", "8", "C", "8", "-",
        "9", "6", "1", "8", "5", "A", "9", "8", "E", "5", "8">>,
      <<"9", "8", "3", "5", "D", "6", "9", "6", "9", "-", "2", "3",
        "D", "-", "4", "4", "C", "A", "-", "A", "5", "E", "A", "-",
        "D", "2", "5", "2", "A", "E", "3", "2", "9", "7", "B", "9">>,
      <<>> }

\* The arguments main may pass to BleCentral::new.
ArgPairs ==
    [service : {ServiceText} \cup MalformedTexts,
     characteristic : {CharText} \cup MalformedTexts]

HexDigits ==
    {"0", "1", "2", "3", "4", "5", "6", "7", "8", "9",
     "A", "B", "C", "D", "E", "F", "a", "b", "c", "d", "e", "f"}
HyphenAt == {9, 14, 19, 24}

\* Uuid::parse_str(text): Ok(uuid) or Err(uuid::Error).
ParseUuidLenient(text) == [ok |-> text # <<>>]
ParseUuid(text) ==
    [ok |-> /\ Len(text) = 36
            /\ \A k \in 1..Len(text) :
                  IF k \in HyphenAt THEN text[k] = "-"
                  ELSE text[k] \in HexDigits]

(***************************************************************************)
(* BleError values: the kind, and the uuid NoCharacteristic carries.       *)
(***************************************************************************)
Result(kind) == [kind |-> kind, uuid |-> None]
Ok == Result("Ok")
NotRun == Result("none")
NoCharacteristicErr(uuid) == [kind |-> "NoCharacteristic", uuid |-> uuid]
Failed(r) == r.kind \notin {"Ok", "none"}

(***************************************************************************)
(* Notification payloads.  A payload is a sequence of bytes, written as    *)
(* one-character strings; "xFF" is a byte that is not valid UTF-8.         *)
(***************************************************************************)
Payloads ==
    { <<"[", "1", "]">>,        \* valid JSON
      <<" ", "1", "1">>,        \* valid JSON with leading whitespace
      <<"[", "1">>,             \* truncated array
      <<"xFF">> }               \* invalid UTF-8

\* ValueNotification { uuid, value }: the packets the stream may deliver.
Packets ==
    {[uuid |-> CharUuid, value |-> b] : b \in Payloads}
    \cup {[uuid |-> OtherUuid, value |-> <<"[", "1", "]">>],
          [uuid |-> OtherUuid, value |-> <<"xFF">>]}

\* String::from_utf8_lossy: invalid sequences become U+FFFD.
from_utf8_lossy(bytes) ==
    [k \in 1..Len(bytes) |-> IF bytes[k] = "xFF" THEN "uFFFD" ELSE bytes[k]]

RECURSIVE SkipWs(_, _)
SkipWs(text, k) ==
    IF k <= Len(text) /\ text[k] = " " THEN SkipWs(text, k + 1) ELSE k

RECURSIVE DigitsEnd(_, _)
DigitsEnd(text, k) ==
    IF k <= Len(text) /\ text[k] = "1" THEN DigitsEnd(text, k + 1) ELSE k

ParseFail == [ok |-> FALSE, val |-> <<>>, nxt |-> 0]

\* serde_json's parser on the JSON subset of numbers and arrays: the parsed
\* Value and the position after it.
RECURSIVE ParseValue(_, _), ParseItems(_, _, _)
ParseValue(text, k) ==
    LET j == SkipWs(text, k) IN
    IF j > Len(text) THEN ParseFail
    ELSE IF text[j] = "1" THEN
        LET e == DigitsEnd(text, j) IN
        [ok |-> TRUE,
         val |-> [kind |-> "num", digits |-> SubSeq(text, j, e - 1)],
         nxt |-> e]
    ELSE IF text[j] = "[" THEN
        LET m == SkipWs(text, j + 1) IN
        IF m <= Len(text) /\ text[m] = "]"
        THEN [ok |-> TRUE, val |-> [kind |-> "arr", items |-> <<>>], nxt |-> m + 1]
        ELSE ParseItems(text, j + 1, <<>>)
    ELSE ParseFail
ParseItems(text, k, acc) ==
    LET r == ParseValue(text, k) IN
    IF ~r.ok THEN ParseFail
    ELSE LET m == SkipWs(text, r.nxt) IN
         IF m > Len(text) THEN ParseFail
         ELSE IF text[m] = "," THEN ParseItems(text, m + 1, Append(acc, r.val))
         ELSE IF text[m] = "]"
         THEN [ok |-> TRUE,
               val |-> [kind |-> "arr", items |-> Append(acc, r.val)],
               nxt |-> m + 1]
         ELSE ParseFail

\* serde_json::from_str::<Value>: one value, then only whitespace.
from_str(text) ==
    LET r == ParseValue(text, 1) IN
    IF r.ok /\ SkipWs(text, r.nxt) > Len(text)
    THEN [ok |-> TRUE, val |-> r.val]
    ELSE [ok |-> FALSE, val |-> <<>>]

\* Display of a Value: its compact serialization.
RECURSIVE to_string(_), JoinItems(_)
to_string(v) ==
    IF v.kind = "num" THEN v.digits
    ELSE <<"[">> \o JoinItems(v.items) \o <<"]">>
JoinItems(items) ==
    IF items = <<>> THEN <<>>
    ELSE IF Len(items) = 1 THEN to_string(items[1])
    ELSE to_string(items[1]) \o <<",">> \o JoinItems(Tail(items))

InfoEntry(text) == [level |-> "info", text |-> text]
ErrorEntry == [level |-> "error", text |-> <<"JSON parse error">>]

\* What one packet adds to the log: the body of `Ok(Some(n)) => ...`.
OnPacketAnyUuid(uuid, bytes) ==
    LET parsed == from_str(from_utf8_lossy(bytes)) IN
    IF parsed.ok THEN <<InfoEntry(to_string(parsed.val))>> ELSE <<ErrorEntry>>
OnPacketRaw(uuid, bytes) ==
    IF uuid = CharUuid
    THEN IF from_str(from_utf8_lossy(bytes)).ok
         THEN <<InfoEntry(from_utf8_lossy(bytes))>> ELSE <<ErrorEntry>>
    ELSE <<>>
OnPacket(uuid, bytes) ==
    IF uuid = CharUuid
    THEN LET parsed == from_str(from_utf8_lossy(bytes)) IN
         IF parsed.ok THEN <<InfoEntry(to_string(parsed.val))>>
         ELSE <<ErrorEntry>>
    ELSE <<>>

\* Where the session loop goes after a packet: `loop` has no exit on the
\* Ok(Some(n)) arm, whatever the packet holds.
AfterPacketStrict(uuid, bytes) ==
    IF uuid = CharUuid /\ ~from_str(from_utf8_lossy(bytes)).ok
    THEN "return" ELSE "next"
AfterPacket(uuid, bytes) == "next"

(***************************************************************************)
(* The transport's answers.                                                *)
(***************************************************************************)
\* manager.adapters(): the adapters, in enumeration order.
AdapterLists ==
    {<<>>} \cup {<<a>> : a \in Adapters}
           \cup {<<a, b>> : a \in Adapters, b \in Adapters}

\* adapter.peripherals(): the peripherals discovered so far, in listing order.
Listings ==
    {<<>>} \cup {<<p>> : p \in Peripherals}
           \cup {l \in {<<p, q>> : p \in Peripherals, q \in Peripherals} :
                    l[1] # l[2]}

\* p.properties(): Err(_), Ok(None), or Ok(Some(props)) with props.services.
PropsAnswers ==
    { [kind |-> "Err", services |-> {}],
      [kind |-> "None", services |-> {}],
      [kind |-> "Some", services |-> {OtherUuid}],
      [kind |-> "Some", services |-> {ServiceUuid, OtherUuid}] }

\* periph.characteristics(): the uuids of the discovered characteristics.
Catalogs ==
    { <<>>, <<OtherUuid>>, <<CharUuid>>, <<OtherUuid, CharUuid>> }

Range(f) == {f[k] : k \in DOMAIN f}

\* `if let Ok(Some(props)) = ... { if props.services.contains(&service_uuid)`
Advertises(answer) == answer.kind = "Some" /\ ServiceUuid \in answer.services

\* The listed peripherals that advertise the target, by position.
Matching(l, pr) == {k \in 1..Len(l) : Advertises(pr[l[k]])}
FirstMatching(l, pr) ==
    l[CHOOSE k \in Matching(l, pr) : \A m \in Matching(l, pr) : k <= m]

(***************************************************************************)
(* Initial state: main is about to call BleCentral::new; the central it    *)
(* builds has every handle unset.                                          *)
(***************************************************************************)
NoResults == [s \in Stages |-> NotRun]
NoScan == [started |-> FALSE, polls |-> 0, sleeps |-> 0, stops |-> 0,
           stopFailed |-> FALSE, matchPoll |-> 0, nMatching |-> 0,
           firstMatch |-> None]
NoSession == [opens |-> 0, subs |-> 0, recv |-> <<>>, cause |-> "none",
              timer |-> 0, quiet |-> 0]

\* One request to the transport: the call, whether it succeeded, and the
\* handle it was made on (for adapters(): the adapter it yielded).
Op(call, ok, on) == [op |-> call, ok |-> ok, on |-> on]

Init ==
    /\ args \in ArgPairs
    /\ created = NotRun
    /\ mainpc = "new"
    /\ pc = "recreate_adapter"
    /\ iter = 1
    /\ manager = 0
    /\ adapter = None
    /\ peripheral = None
    /\ characteristic = None
    /\ i = 0
    /\ list = <<>>
    /\ idx = 0
    /\ props = <<>>
    /\ found = -1
    /\ res = NoResults
    /\ scan = NoScan
    /\ sess = NoSession
    /\ out = <<>>
    /\ catalog = <<>>
    /\ backoffs = 0
    /\ linkOpen = {}
    /\ subscribed = {}
    /\ shutdownCalls = <<>>
    /\ ops = <<>>
    /\ shutdowns = 0

\* `BleCentral::new(service, characteristic).await.expect("Initialization
\* failed")`: the service text is parsed first, then the characteristic text;
\* `?` returns UuidParse and expect panics, else main goes on to its select.
New ==
    /\ mainpc = "new"
    /\ IF ParseUuid(args.service).ok /\ ParseUuid(args.characteristic).ok
       THEN created' = Ok /\ mainpc' = "select"
       ELSE created' = Result("UuidParse") /\ mainpc' = "aborted"
    /\ UNCHANGED <<args, ops, shutdowns, found, pc, iter, manager, adapter, peripheral,
                   characteristic, i, list, idx, props, res, scan, sess, out,
                   catalog, backoffs, linkOpen, subscribed, shutdownCalls>>

\* run is polled only inside main's select!: once ctrl_c wins, the run future
\* is dropped.
RunningDetached == TRUE
Running == mainpc = "select"

(***************************************************************************)
(* run: what the loop does with a stage's result.                          *)
(***************************************************************************)
\* `if let Err(e) = stage { warn!; sleep(reconnect_backoff).await; continue }`
OnErrorFallThrough(stage) ==
    IF stage = "connect_and_discover" THEN "run_session" ELSE "backoff"
OnError(stage) == "backoff"

\* `self.peripheral = None`, in the handler of run_session only.
KeepPeripheral(stage, per) == per
DropPeripheral(stage, per) == IF stage = "run_session" THEN None ELSE per

\* `self.characteristic = None`, in the handler of run_session only.
KeepCharacteristic(stage, ch) == ch
DropCharacteristic(stage, ch) == IF stage = "run_session" THEN None ELSE ch

\* A stage returns Err(e) to run; r is the pass's results so far.
StageFails(r, stage, e) ==
    /\ res' = [r EXCEPT ![stage] = e]
    /\ backoffs' = 0
    /\ pc' = OnError(stage)
    /\ peripheral' = DropPeripheral(stage, peripheral)
    /\ characteristic' = DropCharacteristic(stage, characteristic)

\* A stage returns Ok(()) to run, which goes on to `next`.
StageOk(stage, next) ==
    /\ res' = [res EXCEPT ![stage] = Ok]
    /\ pc' = next

(***************************************************************************)
(* recreate_adapter                                                        *)
(***************************************************************************)
\* `Manager::new().await?`, the first await of a pass of the loop.
ManagerNew ==
    /\ Running /\ pc = "recreate_adapter"
    /\ \E ok \in BOOLEAN :
        IF ok
        THEN /\ res' = NoResults
             /\ pc' = "adapters"
             /\ UNCHANGED <<peripheral, characteristic, backoffs>>
        ELSE StageFails(NoResults, "recreate_adapter", Result("Api"))
    /\ UNCHANGED <<args, created, ops, shutdowns, mainpc, iter, manager, adapter, i, list, idx, props, found,
                   scan, sess, out, catalog, linkOpen, subscribed,
                   shutdownCalls>>

\* `adapters.into_iter().next()`: the adapter stored in self.adapter, in the
\* place of the one held before.
KeepOldAdapter(adapters, old) == IF old = None THEN Head(adapters) ELSE old
AcquiredAdapter(adapters, old) == Head(adapters)

\* `manager.adapters().await?`, then the first adapter or NoAdapter.
ListAdapters ==
    /\ Running /\ pc = "adapters"
    /\ \/ /\ StageFails(res, "recreate_adapter", Result("Api"))
          /\ ops' = Append(ops, Op("adapters", FALSE, None))
          /\ UNCHANGED <<manager, adapter, found>>
       \/ \E adapters \in AdapterLists :
          /\ found' = Len(adapters)
          /\ IF adapters = <<>>
             THEN /\ StageFails(res, "recreate_adapter", Result("NoAdapter"))
                  /\ ops' = Append(ops, Op("adapters", FALSE, None))
                  /\ UNCHANGED <<manager, adapter>>
             ELSE /\ manager' = iter
                  /\ adapter' = AcquiredAdapter(adapters, adapter)
                  /\ ops' = Append(ops, Op("adapters", TRUE, Head(adapters)))
                  /\ StageOk("recreate_adapter", "scan_and_select")
                  /\ UNCHANGED <<peripheral, characteristic, backoffs>>
    /\ UNCHANGED <<args, created, shutdowns, mainpc, iter, i, list, idx, props, scan, sess, out, catalog,
                   linkOpen, subscribed, shutdownCalls>>

(***************************************************************************)
(* scan_and_select                                                         *)
(***************************************************************************)
\* The head of `'scan: for _ in 0..self.config.scan_retries`, entered with n
\* passes begun: the next await and the passes begun after it.
LoopHead(n) ==
    IF n < ScanRetries THEN [pc |-> "peripherals", i |-> n + 1]
    ELSE [pc |-> "stop_scan", i |-> n]

\* run calls scan_and_select: `self.adapter.as_ref().ok_or(NoAdapter)?`.
ScanAndSelect ==
    /\ Running /\ pc = "scan_and_select"
    /\ scan' = NoScan
    /\ IF adapter = None
       THEN StageFails(res, "scan_and_select", Result("NoAdapter"))
       ELSE /\ pc' = "start_scan"
            /\ UNCHANGED <<res, peripheral, characteristic, backoffs>>
    /\ UNCHANGED <<args, created, ops, shutdowns, found, mainpc, iter, manager, adapter, i, list, idx, props, sess,
                   out, catalog, linkOpen, subscribed, shutdownCalls>>

\* `adapt.start_scan(filter).await?`
StartScan ==
    /\ Running /\ pc = "start_scan"
    /\ \E ok \in BOOLEAN :
        /\ ops' = Append(ops, Op("start_scan", ok, adapter))
        /\ IF ok
           THEN
             /\ scan' = [scan EXCEPT !.started = TRUE]
             /\ pc' = LoopHead(0).pc
             /\ i' = LoopHead(0).i
             /\ UNCHANGED <<res, peripheral, characteristic, backoffs>>
           ELSE /\ StageFails(res, "scan_and_select", Result("Api"))
                /\ UNCHANGED <<scan, i>>
    /\ UNCHANGED <<args, created, shutdowns, found, mainpc, iter, manager, adapter, list, idx, props, sess, out,
                   catalog, linkOpen, subscribed, shutdownCalls>>

\* `let list = adapt.peripherals().await?`: one poll.  The transport fixes
\* what properties() answers for the listed peripherals during this poll.
ListPeripherals ==
    /\ Running /\ pc = "peripherals"
    /\ \/ /\ StageFails(res, "scan_and_select", Result("Api"))
          /\ scan' = [scan EXCEPT !.polls = @ + 1]
          /\ i' = 0 /\ list' = <<>> /\ idx' = 0 /\ props' = <<>>
       \/ \E l \in Listings : \E pr \in [Range(l) -> PropsAnswers] :
          /\ list' = l
          /\ props' = pr
          /\ idx' = IF l = <<>> THEN 0 ELSE 1
          /\ pc' = IF l = <<>> THEN "scan_sleep" ELSE "properties"
          /\ scan' = IF scan.matchPoll = 0 /\ Matching(l, pr) # {}
                     THEN [scan EXCEPT !.polls = @ + 1,
                                       !.matchPoll = scan.polls + 1,
                                       !.nMatching = Cardinality(Matching(l, pr)),
                                       !.firstMatch = FirstMatching(l, pr)]
                     ELSE [scan EXCEPT !.polls = @ + 1]
          /\ UNCHANGED <<i, res, peripheral, characteristic, backoffs>>
    /\ UNCHANGED <<args, created, ops, shutdowns, found, mainpc, iter, manager, adapter, sess, out, catalog,
                   linkOpen, subscribed, shutdownCalls>>

\* Where the 'scan loop goes once list[k] advertises the target: `break 'scan`.
OnMatchKeepScanning(l, k) ==
    IF k < Len(l) THEN [pc |-> "properties", idx |-> k + 1]
    ELSE [pc |-> "scan_sleep", idx |-> 0]
OnMatch(l, k) == [pc |-> "stop_scan", idx |-> 0]

\* Where it goes when list[k] does not: the next p of the list, or the sleep.
OnNoMatch(l, k) ==
    IF k < Len(l) THEN [pc |-> "properties", idx |-> k + 1]
    ELSE [pc |-> "scan_sleep", idx |-> 0]

\* `p.properties().await` for p = list[idx], and the body of `for p in &list`.
Properties ==
    /\ Running /\ pc = "properties"
    /\ LET p == list[idx]
           to == IF Advertises(props[p]) THEN OnMatch(list, idx)
                 ELSE OnNoMatch(list, idx)
       IN /\ peripheral' = IF Advertises(props[p]) THEN p ELSE peripheral
          /\ pc' = to.pc
          /\ idx' = to.idx
    /\ UNCHANGED <<args, created, ops, shutdowns, found, mainpc, iter, manager, adapter, characteristic, i, list,
                   props, res, scan, sess, out, catalog, backoffs, linkOpen,
                   subscribed, shutdownCalls>>

\* `sleep(self.config.scan_interval).await`, then the loop head.
ScanSleep ==
    /\ Running /\ pc = "scan_sleep"
    /\ scan' = [scan EXCEPT !.sleeps = @ + 1]
    /\ pc' = LoopHead(i).pc
    /\ i' = LoopHead(i).i
    /\ UNCHANGED <<args, created, ops, shutdowns, found, mainpc, iter, manager, adapter, peripheral, characteristic,
                   list, idx, props, res, sess, out, catalog, backoffs,
                   linkOpen, subscribed, shutdownCalls>>

\* run calls connect_and_discover:
\* `self.peripheral.as_ref().ok_or(NoPeripheral).unwrap()`.
ConnectAndDiscoverEntry(per) == IF per = None THEN "panicked" ELSE "connect"

\* `self.peripheral.as_ref().ok_or(BleError::NoPeripheral)?; Ok(())`
ScanResult(per) == IF per = None THEN Result("NoPeripheral") ELSE Ok

\* `adapt.stop_scan().await?`, then the result of the stage.
StopScan ==
    /\ Running /\ pc = "stop_scan"
    /\ i' = 0 /\ list' = <<>> /\ idx' = 0 /\ props' = <<>>
    /\ \E ok \in BOOLEAN :
        /\ scan' = [scan EXCEPT !.stops = @ + 1, !.stopFailed = ~ok]
        /\ IF ~ok
           THEN StageFails(res, "scan_and_select", Result("Api"))
           ELSE IF Failed(ScanResult(peripheral))
           THEN StageFails(res, "scan_and_select", ScanResult(peripheral))
           ELSE /\ StageOk("scan_and_select", "connect_and_discover")
                /\ UNCHANGED <<peripheral, characteristic, backoffs>>
    /\ UNCHANGED <<args, created, ops, shutdowns, found, mainpc, iter, manager, adapter, sess, out, catalog,
                   linkOpen, subscribed, shutdownCalls>>

(***************************************************************************)
(* connect_and_discover                                                    *)
(***************************************************************************)
\* run calls connect_and_discover; the unwrap panics on None.
ConnectAndDiscover ==
    /\ Running /\ pc = "connect_and_discover"
    /\ pc' = ConnectAndDiscoverEntry(peripheral)
    /\ UNCHANGED <<args, created, ops, shutdowns, found, mainpc, iter, manager, adapter, peripheral, characteristic,
                   i, list, idx, props, res, scan, sess, out, catalog,
                   backoffs, linkOpen, subscribed, shutdownCalls>>

\* `periph.connect().await?`
Connect ==
    /\ Running /\ pc = "connect"
    /\ \E ok \in BOOLEAN :
        /\ ops' = Append(ops, Op("connect", ok, peripheral))
        /\ IF ok
           THEN
             /\ linkOpen' = linkOpen \cup {peripheral}
             /\ pc' = "discover_services"
             /\ UNCHANGED <<res, peripheral, characteristic, backoffs>>
           ELSE /\ StageFails(res, "connect_and_discover", Result("Api"))
                /\ UNCHANGED linkOpen
    /\ UNCHANGED <<args, created, shutdowns, found, mainpc, iter, manager, adapter, i, list, idx, props, scan,
                   sess, out, catalog, subscribed, shutdownCalls>>

\* `chars.iter().find(|c| c.uuid == self.char_uuid).cloned()`
FindFirstOf(chars) == IF chars = <<>> THEN None ELSE Head(chars)
RECURSIVE FindCharacteristic(_)
FindCharacteristic(chars) ==
    IF chars = <<>> THEN None
    ELSE IF Head(chars) = CharUuid THEN Head(chars)
    ELSE FindCharacteristic(Tail(chars))

\* `periph.discover_services().await?`, then the search of the catalog.
DiscoverServices ==
    /\ Running /\ pc = "discover_services"
    /\ \/ /\ StageFails(res, "connect_and_discover", Result("Api"))
          /\ ops' = Append(ops, Op("discover_services", FALSE, peripheral))
          /\ UNCHANGED catalog
       \/ \E chars \in Catalogs :
          /\ ops' = Append(ops, Op("discover_services", TRUE, peripheral))
          /\ catalog' = chars
          /\ characteristic' = FindCharacteristic(chars)
          /\ StageOk("connect_and_discover", "run_session")
          /\ UNCHANGED <<peripheral, backoffs>>
    /\ UNCHANGED <<args, created, shutdowns, found, mainpc, iter, manager, adapter, i, list, idx, props, scan,
                   sess, out, linkOpen, subscribed, shutdownCalls>>

(***************************************************************************)
(* run_session                                                             *)
(***************************************************************************)
\* The two `ok_or(...)?` at the head of run_session.
RunSessionEntry(per, ch) ==
    IF per = None THEN Result("NoPeripheral")
    ELSE IF ch = None THEN NoCharacteristicErr(CharUuid)
    ELSE Ok

\* The first await of run_session: the notification stream is opened before
\* the subscribe request is issued.
FirstSessionAwaitSubscribe == "subscribe"
FirstSessionAwait == "notifications"

\* run calls run_session.
RunSession ==
    /\ Running /\ pc = "run_session"
    /\ sess' = NoSession /\ out' = <<>>
    /\ IF Failed(RunSessionEntry(peripheral, characteristic))
       THEN StageFails(res, "run_session",
                       RunSessionEntry(peripheral, characteristic))
       ELSE /\ pc' = FirstSessionAwait
            /\ UNCHANGED <<res, peripheral, characteristic, backoffs>>
    /\ UNCHANGED <<args, created, ops, shutdowns, found, mainpc, iter, manager, adapter, i, list, idx, props, scan,
                   catalog, linkOpen, subscribed, shutdownCalls>>

\* `periph.notifications().await?`
Notifications ==
    /\ Running /\ pc = "notifications"
    /\ \E ok \in BOOLEAN :
        /\ ops' = Append(ops, Op("notifications", ok, peripheral))
        /\ IF ok
           THEN
             /\ sess' = [sess EXCEPT !.opens = @ + 1]
             /\ pc' = "subscribe"
             /\ UNCHANGED <<res, peripheral, characteristic, backoffs>>
           ELSE /\ StageFails(res, "run_session", Result("Api"))
                /\ sess' = [sess EXCEPT !.cause = "notifications"]
    /\ UNCHANGED <<args, created, shutdowns, found, mainpc, iter, manager, adapter, i, list, idx, props, scan,
                   out, catalog, linkOpen, subscribed, shutdownCalls>>

\* `periph.subscribe(tx_char).await?`
Subscribe ==
    /\ Running /\ pc = "subscribe"
    /\ \E ok \in BOOLEAN :
        /\ ops' = Append(ops, Op("subscribe", ok, characteristic))
        /\ IF ok
           THEN
             /\ sess' = [sess EXCEPT !.subs = @ + 1]
             /\ subscribed' = subscribed \cup {peripheral}
             /\ pc' = "next"
             /\ UNCHANGED <<res, peripheral, characteristic, backoffs>>
           ELSE /\ StageFails(res, "run_session", Result("Api"))
                /\ sess' = [sess EXCEPT !.subs = @ + 1, !.cause = "subscribe"]
                /\ UNCHANGED subscribed
    /\ UNCHANGED <<args, created, shutdowns, found, mainpc, iter, manager, adapter, i, list, idx, props, scan,
                   out, catalog, linkOpen, shutdownCalls>>

\* The `_` arm of the match: Err(Elapsed) ("timeout") and Ok(None) ("closed")
\* both `return Err(BleError::SessionEnded)`.
SessionOutcomeCleanClose(cause) ==
    IF cause = "closed" THEN Ok ELSE Result("SessionEnded")
SessionOutcomeApiOnClose(cause) ==
    IF cause = "closed" THEN Result("Api") ELSE Result("SessionEnded")
SessionOutcome(cause) == Result("SessionEnded")

\* The time already run on the Timeout future the next await of the loop
\* waits on, after a packet taken when `elapsed` had run on the last one:
\* `timeout(..)` is built anew in every pass of `loop`, whatever the packet.
TimerRestartOnTarget(uuid, bytes, elapsed) ==
    IF uuid = CharUuid THEN 0 ELSE elapsed
TimerAfterPacket(uuid, bytes, elapsed) == 0

\* `match timeout(self.config.notify_timeout, notifications.next()).await`:
\* a packet that arrives d ticks into the await, before the timer has run
\* notify_timeout, or the `_` arm (Elapsed once the timer has run
\* notify_timeout, or Ok(None) when the stream closed).  sess.timer is the
\* time run on the timer when the await begins, sess.quiet the time without
\* a packet that a timeout ended.
NextNotification ==
    /\ Running /\ pc = "next"
    /\ \/ /\ Len(sess.recv) < MaxPackets
          /\ \E n \in Packets : \E d \in 0..(NotifyTimeout - 1) :
             /\ sess.timer + d < NotifyTimeout
             /\ out' = out \o OnPacket(n.uuid, n.value)
             /\ sess' = [sess EXCEPT
                            !.recv = Append(@, n),
                            !.timer = TimerAfterPacket(n.uuid, n.value,
                                                       sess.timer + d)]
             /\ IF AfterPacket(n.uuid, n.value) = "next"
                THEN /\ pc' = "next"
                     /\ UNCHANGED <<res, peripheral, characteristic, backoffs>>
                ELSE StageFails(res, "run_session", Result("SessionEnded"))
       \/ \E cause \in {"timeout", "closed"} :
          /\ IF Failed(SessionOutcome(cause))
             THEN StageFails(res, "run_session", SessionOutcome(cause))
             ELSE \* `info!("Session ended normally; exiting"); break`
                  /\ StageOk("run_session", "exited")
                  /\ UNCHANGED <<peripheral, characteristic, backoffs>>
          /\ sess' = [sess EXCEPT
                         !.cause = cause,
                         !.quiet = IF cause = "timeout"
                                   THEN NotifyTimeout - sess.timer ELSE @]
          /\ UNCHANGED out
    /\ UNCHANGED <<args, created, ops, shutdowns, found, mainpc, iter, manager, adapter, i, list, idx, props, scan,
                   catalog, linkOpen, subscribed, shutdownCalls>>

(***************************************************************************)
(* run: the backoff, and main                                              *)
(***************************************************************************)
\* `sleep(self.config.reconnect_backoff).await; continue`
Backoff ==
    /\ Running /\ pc = "backoff"
    /\ iter < MaxIter
    /\ backoffs' = backoffs + 1
    /\ iter' = iter + 1
    /\ pc' = "recreate_adapter"
    /\ found' = -1 /\ scan' = NoScan /\ sess' = NoSession /\ out' = <<>>
    /\ catalog' = <<>> /\ ops' = <<>>
    /\ UNCHANGED <<args, created, shutdowns, mainpc, manager, adapter, peripheral, characteristic, i,
                   list, idx, props, res, linkOpen, subscribed, shutdownCalls>>

\* `tokio::select! { _ = runner => ..., _ = shutdown => ... }`: run returned
\* (it left its loop), or ctrl_c completed while run was suspended at an
\* await; the run future is dropped where it stands.
Select ==
    /\ mainpc = "select"
    /\ pc \in SuspensionPoints \cup {"exited"}
    /\ mainpc' = "shutdown"
    /\ UNCHANGED <<args, created, ops, shutdowns, found, pc, iter, manager, adapter, peripheral, characteristic, i,
                   list, idx, props, res, scan, sess, out, catalog, backoffs,
                   linkOpen, subscribed, shutdownCalls>>

\* `let _ = fut;` builds the future of an async call and drops it without
\* polling it: the call never reaches the transport.
Dropped(call) == <<>>

\* The transport calls shutdown issues for self.peripheral = per and
\* self.characteristic = ch.
ShutdownCalls(per, ch) ==
    IF per # None
    THEN (IF ch # None THEN Dropped("unsubscribe") ELSE <<>>)
         \o Dropped("disconnect")
    ELSE <<>>

\* `ble.shutdown().await`
Shutdown ==
    /\ mainpc = "shutdown"
    /\ shutdownCalls' = ShutdownCalls(peripheral, characteristic)
    /\ shutdowns' = shutdowns + 1
    /\ mainpc' = "done"
    /\ UNCHANGED <<args, created, ops, found, pc, iter, manager, adapter, peripheral, characteristic, i,
                   list, idx, props, res, scan, sess, out, catalog, backoffs,
                   linkOpen, subscribed>>

Next ==
    \/ New
    \/ ManagerNew
    \/ ListAdapters
    \/ ScanAndSelect
    \/ StartScan
    \/ ListPeripherals
    \/ Properties
    \/ ScanSleep
    \/ StopScan
    \/ ConnectAndDiscover
    \/ Connect
    \/ DiscoverServices
    \/ RunSession
    \/ Notifications
    \/ Subscribe
    \/ NextNotification
    \/ Backoff
    \/ Select
    \/ Shutdown

Spec == Init /\ [][Next]_vars

(***************************************************************************)
(* The stages connect_and_discover and run_session called on a central in  *)
(* any state of its handles, as a caller other than run may call them.     *)
(***************************************************************************)
InitStage ==
    /\ args = [service |-> ServiceText, characteristic |-> CharText]
    /\ created = Ok
    /\ mainpc = "select"
    /\ pc \in {"connect_and_discover", "run_session"}
    /\ iter = 1
    /\ manager = 0
    /\ adapter = None
    /\ peripheral \in Peripherals \cup {None}
    /\ characteristic \in {None, CharUuid}
    /\ i = 0
    /\ list = <<>>
    /\ idx = 0
    /\ props = <<>>
    /\ found = -1
    /\ res = NoResults
    /\ scan = NoScan
    /\ sess = NoSession
    /\ out = <<>>
    /\ catalog = <<>>
    /\ backoffs = 0
    /\ linkOpen = {}
    /\ subscribed = {}
    /\ shutdownCalls = <<>>
    /\ ops = <<>>
    /\ shutdowns = 0

NextStage ==
    \/ ConnectAndDiscover
    \/ Connect
    \/ DiscoverServices
    \/ RunSession
    \/ Notifications
    \/ Subscribe
    \/ NextNotification

SpecStage == InitStage /\ [][NextStage]_vars

(***************************************************************************)
(* Properties.                                                             *)
(***************************************************************************)
StageIndex(s) ==
    CASE s = "recreate_adapter" -> 1
      [] s = "scan_and_select" -> 2
      [] s = "connect_and_discover" -> 3
      [] s = "run_session" -> 4

\* scan_and_select has returned and run has not moved past its result.
ScanJustReturned ==
    \/ pc = "connect_and_discover"
    \/ pc = "backoff" /\ Failed(res["scan_and_select"])

\* C1: every run of scan_and_select that started a scan has called stop_scan
\* exactly once when it returns, whatever the outcome (match, poll budget
\* exhausted, or a transport failure while listing peripherals).
C1_StopScanExactlyOnce ==
    (scan.started /\ res["scan_and_select"].kind # "none") => scan.stops = 1

\* C2: an invocation of scan_and_select in which none of the scan_retries
\* polls lists a peripheral advertising the target service fails with
\* NoPeripheral, in any pass of the loop.  Stated for the invocations whose
\* transport calls all succeed (the listings and the one stop_scan), where
\* no transport error can take the place of NoPeripheral.
C2_NoMatchFailsNoPeripheral ==
    ( /\ res["scan_and_select"].kind # "none"
      /\ scan.polls = ScanRetries
      /\ scan.matchPoll = 0
      /\ scan.stops = 1 /\ ~scan.stopFailed )
    => res["scan_and_select"] = Result("NoPeripheral")

\* C3: when the loop re-enters adapter acquisition after a failure, no
\* connection made and no subscription issued in an earlier pass is still
\* open: each connect was matched by a disconnect, each subscribe by an
\* unsubscribe.
C3_NoLeakAcrossRestart ==
    (pc = "recreate_adapter" /\ iter > 1) => (linkOpen = {} /\ subscribed = {})

\* C4: shutdown issues the cleanup requests to the transport according to
\* the state it finds: unsubscribe then disconnect with peripheral and
\* characteristic set, disconnect alone with only peripheral set, nothing
\* with peripheral unset.
C4_CleanupFor(per, ch) ==
    IF per # None
    THEN (IF ch # None THEN <<"unsubscribe">> ELSE <<>>) \o <<"disconnect">>
    ELSE <<>>
C4_ShutdownIssuesCleanup ==
    mainpc = "done" => shutdownCalls = C4_CleanupFor(peripheral, characteristic)

\* C5: a failure of any of the four stages never ends or crashes the loop:
\* the loop goes to the backoff sleep, runs no later stage of the failed
\* pass, and re-enters adapter acquisition after exactly one sleep; a pass
\* restarts only after a failure; an empty adapter enumeration is NoAdapter.
C5_FailureRestartsAfterOneBackoff ==
    /\ pc \notin {"panicked", "exited"}
    /\ \A s \in Stages : Failed(res[s]) =>
          /\ pc \in {"backoff", "recreate_adapter"}
          /\ backoffs = IF pc = "backoff" THEN 0 ELSE 1
          /\ \A t \in Stages : StageIndex(t) > StageIndex(s) => res[t] = NotRun
    /\ (pc = "recreate_adapter" /\ iter > 1) => \E s \in Stages : Failed(res[s])
    /\ found = 0 => res["recreate_adapter"] = Result("NoAdapter")
C5_Witness ==
    /\ pc = "recreate_adapter" /\ iter > 1 /\ backoffs = 1
    /\ res["recreate_adapter"] = Result("NoAdapter")

\* C6: a session that subscribed and then timed out waiting for a packet
\* ends with SessionEnded; after any failure returned by run_session,
\* peripheral and characteristic are both unset during the backoff and when
\* the next pass enters adapter acquisition.
C6_SessionFailureClearsHandles ==
    /\ sess.cause = "timeout" =>
          (sess.subs = 1 /\ res["run_session"] = Result("SessionEnded"))
    /\ Failed(res["run_session"]) =>
          /\ pc \in {"backoff", "recreate_adapter"}
          /\ peripheral = None /\ characteristic = None
C6_Witness ==
    /\ pc = "backoff" /\ sess.cause = "timeout" /\ sess.subs = 1
    /\ res["run_session"] = Result("SessionEnded")
    /\ peripheral = None /\ characteristic = None

\* C7: at every await of the loop, characteristic is set only if peripheral
\* is set.
C7_CharacteristicOnlyWithPeripheral ==
    pc \in SuspensionPoints => (characteristic # None => peripheral # None)
C7_Witness ==
    /\ pc = "next" /\ iter > 1
    /\ characteristic # None /\ peripheral # None

\* C8 as claimed: at most scan_retries polls; after a match on poll k the
\* first matching peripheral of the listing is recorded, no further poll and
\* no scan_interval sleep follow, and the stage returns success after
\* stopping the scan.
C8_MatchReturnsSuccess ==
    /\ scan.polls <= ScanRetries
    /\ (ScanJustReturned /\ scan.matchPoll > 0) =>
          /\ peripheral = scan.firstMatch
          /\ scan.polls = scan.matchPoll
          /\ scan.sleeps = scan.matchPoll - 1
          /\ scan.stops = 1
          /\ res["scan_and_select"] = Ok

\* C8 as amended: the same, but after the single stop_scan call the stage
\* returns success only if stop_scan succeeded, and the transport error
\* (Api) if it failed.
C8_MatchStopsPolling ==
    /\ scan.polls <= ScanRetries
    /\ (ScanJustReturned /\ scan.matchPoll > 0) =>
          /\ peripheral = scan.firstMatch
          /\ scan.polls = scan.matchPoll
          /\ scan.sleeps = scan.matchPoll - 1
          /\ scan.stops = 1
          /\ res["scan_and_select"] =
                IF scan.stopFailed THEN Result("Api") ELSE Ok
C8_Witness ==
    /\ pc = "connect_and_discover"
    /\ scan.matchPoll = 2 /\ scan.nMatching = 2
    /\ peripheral = scan.firstMatch
    /\ res["scan_and_select"] = Ok

\* C9: when connect and discover succeed on a peripheral whose catalog lacks
\* the target characteristic, connect_and_discover returns success with
\* characteristic unset, and the run_session that follows fails with
\* NoCharacteristic(char_uuid) without opening the notification stream or
\* issuing a subscribe.
C9_MissingCharacteristic ==
    ( /\ res["connect_and_discover"] = Ok
      /\ CharUuid \notin Range(catalog)
      /\ pc # "recreate_adapter" )
    => IF pc = "run_session"
       THEN characteristic = None
       ELSE /\ pc = "backoff"
            /\ res["run_session"] = NoCharacteristicErr(CharUuid)
            /\ sess.opens = 0 /\ sess.subs = 0
C9_Witness ==
    /\ pc = "backoff"
    /\ res["connect_and_discover"] = Ok
    /\ catalog = <<OtherUuid>>
    /\ res["run_session"] = NoCharacteristicErr(CharUuid)

\* C10: in a session, a packet on the target characteristic whose payload
\* is not valid JSON adds one error entry to the log and leaves the session
\* running with its state unchanged; the valid packets that follow are still
\* decoded and emitted.  The log is, packet by packet, what the table below
\* gives; the session ends only by timeout or stream closure.
C10_Entries(n) ==
    IF n.uuid # CharUuid THEN <<>>
    ELSE IF n.value = <<"[", "1", "]">> THEN <<InfoEntry(<<"[", "1", "]">>)>>
    ELSE IF n.value = <<" ", "1", "1">> THEN <<InfoEntry(<<"1", "1">>)>>
    ELSE <<ErrorEntry>>
RECURSIVE C10_Log(_)
C10_Log(recv) ==
    IF recv = <<>> THEN <<>> ELSE C10_Entries(Head(recv)) \o C10_Log(Tail(recv))
C10_MalformedPacketKeepsSession ==
    /\ out = C10_Log(sess.recv)
    /\ pc = "next" =>
          /\ peripheral # None /\ characteristic = CharUuid
          /\ res["run_session"] = NotRun
    /\ (Failed(res["run_session"]) /\ sess.recv # <<>>) =>
          sess.cause \in {"timeout", "closed"}
C10_Witness ==
    /\ pc = "next"
    /\ sess.recv = << [uuid |-> CharUuid, value |-> <<"[", "1">>],
                      [uuid |-> CharUuid, value |-> <<" ", "1", "1">>] >>
    /\ out = <<ErrorEntry, InfoEntry(<<"1", "1">>)>>

\* The last packet taken from the stream by the step, when the step took one.
TookPacket == pc = "next" /\ Len(sess'.recv) = Len(sess.recv) + 1
LastTaken == sess'.recv[Len(sess'.recv)]

\* C11: a packet whose uuid is not the target characteristic adds nothing to
\* the log (no decoded value, no error entry) and leaves the session where
\* it is, with its state unchanged; an entry is added to the log only by a
\* step that takes a packet of the target characteristic.
C11_ForeignPacketIgnored ==
    [][ /\ (TookPacket /\ LastTaken.uuid # CharUuid) =>
              /\ out' = out /\ pc' = "next"
              /\ UNCHANGED <<peripheral, characteristic, res, linkOpen,
                             subscribed, backoffs>>
        /\ (out' # out /\ out' # <<>>) =>
              (TookPacket /\ LastTaken.uuid = CharUuid) ]_vars
C11_Witness ==
    /\ pc = "next"
    /\ sess.recv = << [uuid |-> OtherUuid, value |-> <<"[", "1", "]">>],
                      [uuid |-> OtherUuid, value |-> <<"xFF">>] >>
    /\ out = <<>>

\* C12: run_session never returns success: it returns only with a failure,
\* so run never leaves its loop, and shutdown is reached only because
\* ctrl_c won the select while run was suspended at an await.
C12_SessionNeverSucceeds ==
    /\ res["run_session"].kind # "Ok"
    /\ pc # "exited"
    /\ mainpc \in {"shutdown", "done"} => pc \in SuspensionPoints
C12_Witness ==
    /\ mainpc = "done" /\ pc = "backoff"
    /\ sess.cause = "closed"
    /\ res["run_session"] = Result("SessionEnded")

\* C13: run and ctrl_c race in main's select: once one of them has completed
\* shutdown is invoked exactly once, and from the moment the select is
\* decided the pipeline stays where it was (at an await, or returned): no
\* poll, stop_scan, connect, discover, subscribe or change of the session
\* state by the loop happens any more.
C13_Pipeline ==
    <<pc, iter, manager, adapter, peripheral, characteristic, i, list, idx,
      props, found, res, scan, sess, out, catalog, backoffs, linkOpen,
      subscribed, ops>>
C13_Decided ==
    /\ shutdowns <= 1
    /\ mainpc = "done" <=> shutdowns = 1
    /\ mainpc \in {"shutdown", "done"} =>
          pc \in SuspensionPoints \cup {"exited"}
C13_Abandoned ==
    [][(mainpc \in {"shutdown", "done"}) => (C13_Pipeline' = C13_Pipeline)]_vars
C13_ShutdownAbandonsPipeline == []C13_Decided /\ C13_Abandoned
C13_Witness ==
    /\ mainpc = "done" /\ shutdowns = 1
    /\ pc = "properties" /\ scan.started /\ scan.stops = 0

\* C14 as claimed: once the session is past its preconditions, it ends with
\* SessionEnded on a timeout, on stream closure and on any transport error
\* of the stage, those of notifications() and subscribe() included.
C14_AnyErrorIsSessionEnded ==
    sess.cause # "none" => res["run_session"] = Result("SessionEnded")

\* C14 as amended: it ends with SessionEnded on a timeout and on stream
\* closure; a transport error of notifications() or of subscribe() is
\* returned as the transport error (Api).
C14_SessionEndKinds ==
    /\ sess.cause \in {"timeout", "closed"} =>
          res["run_session"] = Result("SessionEnded")
    /\ sess.cause \in {"notifications", "subscribe"} =>
          res["run_session"] = Result("Api")
    /\ sess.cause # "none" => pc = "backoff"
C14_Witness ==
    /\ pc = "backoff" /\ sess.cause = "subscribe" /\ sess.opens = 1
    /\ res["run_session"] = Result("Api")

\* The end-to-end scenario, seen when its session has just ended: one adapter
\* enumerated, the target first advertised on poll k, connect, discover and
\* subscribe succeeded, one packet taken (valid JSON, target characteristic),
\* then silence past notify_timeout.
C15_Scenario(k) ==
    /\ found = 1
    /\ scan.matchPoll = k
    /\ sess.subs = 1
    /\ Len(sess.recv) = 1
    /\ sess.recv[1].uuid = CharUuid
    /\ sess.recv[1].value \in {<<"[", "1", "]">>, <<" ", "1", "1">>}
    /\ sess.cause = "timeout"
C15_Decoded(bytes) ==
    IF bytes = <<"[", "1", "]">> THEN <<"[", "1", "]">> ELSE <<"1", "1">>
C15_Outcome ==
    \A k \in 1..ScanRetries : C15_Scenario(k) =>
        /\ scan.polls = k
        /\ out = <<InfoEntry(C15_Decoded(sess.recv[1].value))>>
        /\ res["run_session"] = Result("SessionEnded")
        /\ peripheral = None /\ characteristic = None
        /\ pc = "backoff" /\ backoffs = 0
C15_Restart ==
    [][ ((\E k \in 1..ScanRetries : C15_Scenario(k)) /\ pc' # pc) =>
            /\ pc' = "recreate_adapter"
            /\ backoffs' = 1 /\ iter' = iter + 1
            /\ peripheral' = None /\ characteristic' = None ]_vars

\* C15: end to end, for a transport that reports one adapter, first
\* advertises the target service on poll k (k = 3 in the claim), succeeds on
\* connect, discover and subscribe, delivers one valid JSON packet on the
\* target characteristic and then stays idle past notify_timeout: exactly k
\* polls, exactly one decoded value in the log, SessionEnded, peripheral and
\* characteristic cleared, one reconnect_backoff sleep, and the restart from
\* adapter acquisition.
C15_EndToEnd == []C15_Outcome /\ C15_Restart
C15_Witness ==
    /\ C15_Scenario(3) /\ scan.polls = 3
    /\ pc = "backoff" /\ iter < MaxIter
    /\ out = <<InfoEntry(<<"1", "1">>)>>
    /\ res["run_session"] = Result("SessionEnded")

\* The texts that are well-formed hyphenated uuids, among those explored.
C16_WellFormed == {ServiceText, CharText}
C16_Untouched ==
    /\ pc = "recreate_adapter" /\ iter = 1
    /\ manager = 0 /\ adapter = None
    /\ peripheral = None /\ characteristic = None
    /\ found = -1 /\ res = NoResults
    /\ scan = NoScan /\ sess = NoSession
    /\ linkOpen = {} /\ subscribed = {}
    /\ shutdowns = 0

\* C16: if the service text or the characteristic text is malformed,
\* BleCentral::new fails with UuidParse, startup aborts, and the loop never
\* starts: no adapter acquisition, scan, connect or subscribe is performed.
\* With two well-formed texts the central is built and main enters its select.
C16_MalformedIdentityAborts ==
    /\ mainpc = "new" => (created = NotRun /\ C16_Untouched)
    /\ mainpc # "new" =>
          IF args.service \in C16_WellFormed
             /\ args.characteristic \in C16_WellFormed
          THEN created = Ok /\ mainpc # "aborted"
          ELSE /\ created = Result("UuidParse")
               /\ mainpc = "aborted"
               /\ C16_Untouched
C16_Witness ==
    /\ mainpc = "aborted" /\ created = Result("UuidParse")
    /\ args.service = ServiceText
    /\ Len(args.characteristic) = 35

\* C17: connect_and_discover called with peripheral unset returns the error
\* NoPeripheral to its caller, issuing no connect and no discover and without
\* aborting the task; run_session called with peripheral unset returns
\* NoPeripheral before any transport call.
C17_UnsetPeripheralIsReturnedError ==
    [][ /\ (pc = "connect_and_discover" /\ peripheral = None) =>
              /\ res'["connect_and_discover"] = Result("NoPeripheral")
              /\ pc' = "backoff"
              /\ UNCHANGED <<linkOpen, catalog>>
        /\ (pc = "run_session" /\ peripheral = None) =>
              /\ res'["run_session"] = Result("NoPeripheral")
              /\ pc' = "backoff"
              /\ sess' = NoSession
              /\ UNCHANGED <<linkOpen, subscribed>> ]_vars

\* The transport requests of a pass, in the order run's stages issue them.
C18_Order ==
    <<"adapters", "start_scan", "connect", "discover_services",
      "notifications", "subscribe">>

\* C18: in each pass of the loop the transport requests occur in one linear
\* order, each issued only after every earlier one of the pass succeeded:
\* start_scan after a successful acquisition, connect after scan_and_select
\* returned success, discover after connect, the notification stream before
\* subscribe, and subscribe only after connect_and_discover succeeded and
\* resolved the target characteristic in that pass.
C18_LinearOrder ==
    /\ Len(ops) <= Len(C18_Order)
    /\ \A k \in 1..Len(ops) :
          /\ ops[k].op = C18_Order[k]
          /\ k < Len(ops) => ops[k].ok
          /\ ops[k].op = "start_scan" => res["recreate_adapter"] = Ok
          /\ ops[k].op = "connect" => res["scan_and_select"] = Ok
          /\ ops[k].op = "subscribe" =>
                /\ res["connect_and_discover"] = Ok
                /\ ops[k].on = CharUuid
                /\ CharUuid \in Range(catalog)
C18_Witness ==
    /\ pc = "next" /\ iter > 1
    /\ Len(ops) = Len(C18_Order) /\ ops[Len(ops)].ok

\* The requests that go through the adapter or a peripheral it discovered.
C19_NeedAdapter == {"start_scan", "connect", "discover_services", "subscribe"}
C19_AdapterSet ==
    /\ \A k \in 1..Len(ops) :
          /\ ops[k].op \in C19_NeedAdapter => adapter # None
          /\ ops[k].op = "start_scan" =>
                /\ ops[1].op = "adapters" /\ ops[1].ok
                /\ ops[k].on = ops[1].on
                /\ manager = iter
    /\ (pc = "backoff" /\ Failed(res["recreate_adapter"])) =>
          /\ scan = NoScan
          /\ \A k \in 1..Len(ops) : ops[k].op = "adapters"
C19_Acquisition ==
    [][ (pc \in {"recreate_adapter", "adapters"}) =>
           /\ (pc' = "backoff") => UNCHANGED <<manager, adapter>>
           /\ (pc' = "scan_and_select") =>
                 /\ manager' = iter
                 /\ adapter' = ops'[1].on /\ adapter' # None ]_vars

\* C19: every scan, connect, discover and subscribe of the loop happens while
\* adapter is set, and a scan uses the adapter obtained by the successful
\* acquisition of the same pass: a successful acquisition replaces the stored
\* manager and adapter, a failed one leaves them unchanged and no scan
\* follows in that pass.
C19_ScanUsesAcquiredAdapter == []C19_AdapterSet /\ C19_Acquisition
C19_Witness ==
    /\ iter > 1 /\ Len(ops) >= 2
    /\ ops[2].op = "start_scan" /\ ops[2].on = "hci1"
    /\ adapter = "hci1" /\ manager = iter

\* C20: every connect of the loop targets a peripheral that advertised the
\* target service in a poll of the scan of the same pass; a handle recorded
\* in an earlier pass is never connected to without having matched again.
C20_ConnectOnlyToMatched ==
    \A k \in 1..Len(ops) :
        ops[k].op = "connect" =>
            (scan.matchPoll > 0 /\ ops[k].on = scan.firstMatch)

\* The packets that are foreign (another characteristic) or malformed (not
\* valid JSON), among those explored.
C21_NoValue(n) ==
    \/ n.uuid # CharUuid
    \/ n.value \in {<<"[", "1">>, <<"xFF">>}
C21_TimerRestarts ==
    [][ TookPacket => (sess'.timer = 0 /\ pc' = "next" /\ sess'.cause = "none")
      ]_vars
C21_OnlySilenceEnds ==
    /\ pc = "next" => sess.timer = 0
    /\ sess.cause = "timeout" => sess.quiet = NotifyTimeout
    /\ (\A k \in 1..Len(sess.recv) : C21_NoValue(sess.recv[k])) =>
          \A k \in 1..Len(out) : out[k].level # "info"

\* C21: every packet taken restarts the idle timeout, whatever its uuid and
\* whether or not its payload parses: the session ends by timeout only after
\* notify_timeout without any packet, a packet never ends the session, and a
\* stream of only foreign or malformed packets emits no value.
C21_EveryPacketRestartsTimeout == []C21_OnlySilenceEnds /\ C21_TimerRestarts
C21_Witness ==
    /\ sess.cause = "timeout" /\ sess.quiet = NotifyTimeout
    /\ sess.recv = << [uuid |-> OtherUuid, value |-> <<"xFF">>],
                      [uuid |-> CharUuid, value |-> <<"[", "1">>] >>
    /\ out = <<ErrorEntry>>
====
